---- MODULE Spec2Model ----
(***************************************************************************)
(* Model of src/main.rs: PtyTerminal, a PTY session that keeps the output  *)
(* of a child process in a mutex-guarded String.                           *)
(*                                                                         *)
(* Text is a sequence of Unicode scalar values (integers); bytes read from *)
(* the PTY are integers 0..255.  Three kinds of threads run: the caller's  *)
(* thread ("main"), and per successful spawn_command call g a reader       *)
(* thread and a wait thread.  write_chunk is modelled statement by         *)
(* statement so that the mutex, and not the model, makes an append atomic. *)
(***************************************************************************)
EXTENDS Integers, Sequences, FiniteSets, TLC

(* ------------------------------ bounds -------------------------------- *)
\* calls of push_output and spawn_command by the owner in one session
MaxOps == 2
\* successful (n > 0) reads of one reader thread
MaxReads == 1
\* the reads of data of the reader thread in the session of one command
MaxStreamReads == 2

(* --------------------------- program texts ---------------------------- *)
NL == 10
\* U+FFFD REPLACEMENT CHARACTER
REPLACEMENT == 65533
\* "Launching command...\n"
LaunchingNotice == <<76, 97, 117, 110, 99, 104, 105, 110, 103, 32, 99, 111, 109, 109, 97, 110, 100, 46, 46, 46, 10>>
\* "Command completed successfully.\n"
CompletedNotice == <<67, 111, 109, 109, 97, 110, 100, 32, 99, 111, 109, 112, 108, 101, 116, 101, 100, 32, 115, 117, 99, 99, 101, 115, 115, 102, 117, 108, 108, 121, 46, 10>>
\* "Command exited with status "
ExitedPrefix == <<67, 111, 109, 109, 97, 110, 100, 32, 101, 120, 105, 116, 101, 100, 32, 119, 105, 116, 104, 32, 115, 116, 97, 116, 117, 115, 32>>
\* ".\n"
ExitedSuffix == <<46, 10>>
\* "Failed to wait on command: "
WaitFailedPrefix == <<70, 97, 105, 108, 101, 100, 32, 116, 111, 32, 119, 97, 105, 116, 32, 111, 110, 32, 99, 111, 109, 109, 97, 110, 100, 58, 32>>
\* "reader error: "
ReaderErrorPrefix == <<114, 101, 97, 100, 101, 114, 32, 101, 114, 114, 111, 114, 58, 32>>
\* "[stderr]\n"
StderrMarker == <<91, 115, 116, 100, 101, 114, 114, 93, 10>>

(* ------------------------------ inputs -------------------------------- *)
\* CommandStream
Stdout == "Stdout"
Stderr == "Stderr"
CommandStream == {Stdout, Stderr}

\* chunks the caller passes to push_output: "a", "err\n", ""
PushChunks == {<<97>>, <<101, 114, 114, 10>>, <<>>}
\* byte strings one read of the PTY returns: "ok\n", U+00E9 in UTF-8, and
\* the first byte of U+00E9 alone
ReadBytes == {<<111, 107, 10>>, <<195, 169>>, <<195>>}
\* exit codes of the child
\* what one read of a longer output returns: text in one to four bytes a
\* character, and the pieces a read boundary or a child leaves of it
StreamBytes ==
    { <<111, 107, 10>>, <<195, 169>>, <<195>>, <<169>>,
      <<226, 130, 172>>, <<226, 130>>, <<172>>,
      <<240, 159, 152, 128>>, <<240, 159>>,
      <<237, 160, 128>>, <<192, 175>>, <<97, 255, 98>> }

ExitCodes == {0, 2, 10}
\* Display text of an I/O error: "Input/output error"
Causes == {<<73, 110, 112, 117, 116, 47, 111, 117, 116, 112, 117, 116, 32, 101, 114, 114, 111, 114>>}

(* ------------------------------ threads ------------------------------- *)
Gens == 1..MaxOps
Main == <<"main", 0>>
Reader(g) == <<"reader", g>>
Waiter(g) == <<"wait", g>>
Threads == {Main} \cup {Reader(g) : g \in Gens} \cup {Waiter(g) : g \in Gens}
NoThread == <<"none", 0>>
\* Option<JoinHandle<()>>: None, or the handle of the thread of generation g
None == 0

VARIABLES
    buffer,         \* the String inside Arc<Mutex<String>>
    lock,           \* the thread holding the Mutex, or NoThread
    reader_thread,  \* PtyTerminal.reader_thread: None or a generation
    wait_thread,    \* PtyTerminal.wait_thread: None or a generation
    pc,             \* pc[t]: where thread t is
    frame,          \* frame[t]: arguments of t's running write_chunk call
    joining,        \* the handle the caller took and is joining, or None
    child,          \* child[g]: the process spawn_command call g created
    calls,          \* number of spawn_command calls so far
    result,         \* result[g]: what spawn_command call g returned
    reads,          \* reads[g]: what the reads of reader thread g returned so far
    pushes,         \* push_output calls by the caller so far
    alive,          \* the PtyTerminal (and its PtyPair) has not been dropped
    origin,         \* history: the runs of the log, each the text one append wrote
    history         \* history: the appends, in the order they took the lock

vars == <<buffer, lock, reader_thread, wait_thread, pc, frame, joining, child,
          calls, result, reads, pushes, alive, origin, history>>

NoFrame == [stream |-> Stdout, chunk |-> <<>>, ret |-> "idle",
            tag |-> <<"none", 0, 0>>, start |-> 0]

Init ==
    /\ buffer = <<>>
    /\ lock = NoThread
    /\ reader_thread = None
    /\ wait_thread = None
    /\ pc = [t \in Threads |-> IF t = Main THEN "idle" ELSE "unborn"]
    /\ frame = [t \in Threads |-> NoFrame]
    /\ joining = None
    /\ child = [g \in Gens |-> [state |-> "none", code |-> 0]]
    /\ calls = 0
    /\ result = [g \in Gens |-> "none"]
    /\ reads = [g \in Gens |-> [data |-> <<>>, zero |-> FALSE]]
    /\ pushes = 0
    /\ alive = TRUE
    /\ origin = <<>>
    /\ history = <<>>

(* ------------------------- pure functions ----------------------------- *)
\* str::ends_with('\n')
EndsWithNewline(s) == Len(s) > 0 /\ s[Len(s)] = NL

\* Display of a u32
RECURSIVE ToDecimal(_)
ToDecimal(n) == IF n < 10 THEN <<48 + n>> ELSE ToDecimal(n \div 10) \o <<48 + (n % 10)>>

\* mutant of Separator: the newline is pushed whatever the String ends with
SeparatorAlways(s) == <<NL>>

\* the text the Stderr arm pushes before the marker
Separator(s) == IF EndsWithNewline(s) THEN <<>> ELSE <<NL>>

(* String::from_utf8_lossy: every maximal invalid prefix of a UTF-8
   sequence becomes one U+FFFD, every valid sequence its scalar value *)
ByteAt(bytes, i) == IF i <= Len(bytes) THEN bytes[i] ELSE 0
IsCont(x) == x >= 128 /\ x <= 191
utf8_char_width(x) ==
    IF x < 128 THEN 1
    ELSE IF x >= 194 /\ x <= 223 THEN 2
    ELSE IF x >= 224 /\ x <= 239 THEN 3
    ELSE IF x >= 240 /\ x <= 244 THEN 4
    ELSE 0
\* mutant of Second3: any continuation byte is taken as a second byte
Second3Loose(x, y) == IsCont(y)

\* the second byte of a 3-byte sequence, by its first byte
Second3(x, y) ==
    \/ x = 224 /\ y >= 160 /\ y <= 191
    \/ x >= 225 /\ x <= 236 /\ IsCont(y)
    \/ x = 237 /\ y >= 128 /\ y <= 159
    \/ x >= 238 /\ x <= 239 /\ IsCont(y)
\* the second byte of a 4-byte sequence, by its first byte
Second4(x, y) ==
    \/ x = 240 /\ y >= 144 /\ y <= 191
    \/ x >= 241 /\ x <= 243 /\ IsCont(y)
    \/ x = 244 /\ y >= 128 /\ y <= 143
RECURSIVE LossyFrom(_, _)
LossyFrom(bytes, i) ==
    IF i > Len(bytes) THEN <<>>
    ELSE LET x == bytes[i]
             y == ByteAt(bytes, i + 1)
             z == ByteAt(bytes, i + 2)
             u == ByteAt(bytes, i + 3)
             w == utf8_char_width(x)
         IN CASE w = 1 -> <<x>> \o LossyFrom(bytes, i + 1)
              [] w = 2 -> IF IsCont(y)
                          THEN <<(x - 192) * 64 + (y - 128)>> \o LossyFrom(bytes, i + 2)
                          ELSE <<REPLACEMENT>> \o LossyFrom(bytes, i + 1)
              [] w = 3 -> IF ~Second3(x, y) THEN <<REPLACEMENT>> \o LossyFrom(bytes, i + 1)
                          ELSE IF ~IsCont(z) THEN <<REPLACEMENT>> \o LossyFrom(bytes, i + 2)
                          ELSE <<(x - 224) * 4096 + (y - 128) * 64 + (z - 128)>>
                               \o LossyFrom(bytes, i + 3)
              [] w = 4 -> IF ~Second4(x, y) THEN <<REPLACEMENT>> \o LossyFrom(bytes, i + 1)
                          ELSE IF ~IsCont(z) THEN <<REPLACEMENT>> \o LossyFrom(bytes, i + 2)
                          ELSE IF ~IsCont(u) THEN <<REPLACEMENT>> \o LossyFrom(bytes, i + 3)
                          ELSE <<(x - 240) * 262144 + (y - 128) * 4096 + (z - 128) * 64
                                 + (u - 128)>> \o LossyFrom(bytes, i + 4)
              [] OTHER -> <<REPLACEMENT>> \o LossyFrom(bytes, i + 1)
from_utf8_lossy(bytes) == LossyFrom(bytes, 1)

(* ------------------- write_chunk, statement by statement -------------- *)
\* mutant of CanLock: the String is shared without mutual exclusion
CanLockAlways(t) == TRUE

\* Mutex::lock returns only when no thread holds the mutex
CanLock(t) == lock = NoThread

\* a thread calls write_chunk(buffer, stream, chunk) and continues at ret
Call(t, stream, chunk, ret, tag) ==
    /\ pc' = [pc EXCEPT ![t] = "wc_lock"]
    /\ frame' = [frame EXCEPT ![t] = [stream |-> stream, chunk |-> chunk,
                                      ret |-> ret, tag |-> tag, start |-> 0]]

\* let mut buffer = buffer.lock().expect(..); match stream
Lock(t) ==
    /\ pc[t] = "wc_lock"
    /\ CanLock(t)
    /\ lock' = t
    /\ pc' = [pc EXCEPT ![t] = IF frame[t].stream = Stdout THEN "wc_text" ELSE "wc_sep"]
    /\ frame' = [frame EXCEPT ![t].start = Len(buffer)]
    /\ history' = Append(history, [tag |-> frame[t].tag, stream |-> frame[t].stream,
                                   chunk |-> frame[t].chunk])
    /\ UNCHANGED <<buffer, origin, reader_thread, wait_thread, joining, child, calls,
                   result, reads, pushes, alive>>

\* mutant of Push: the text is put in front of the String
PushFront(t, text) ==
    /\ buffer' = text \o buffer
    /\ origin' = IF text = <<>> THEN origin
                 ELSE IF Len(origin) > 0 /\ origin[1].tag = frame[t].tag
                 THEN [origin EXCEPT ![1].len = @ + Len(text)]
                 ELSE <<[tag |-> frame[t].tag, len |-> Len(text)]>> \o origin

\* String::push / String::push_str
Push(t, text) ==
    /\ buffer' = buffer \o text
    /\ origin' = IF text = <<>> THEN origin
                 ELSE IF Len(origin) > 0 /\ origin[Len(origin)].tag = frame[t].tag
                 THEN [origin EXCEPT ![Len(origin)].len = @ + Len(text)]
                 ELSE Append(origin, [tag |-> frame[t].tag, len |-> Len(text)])

\* if !buffer.ends_with('\n') { buffer.push('\n'); }
Sep(t) ==
    /\ pc[t] = "wc_sep"
    /\ Push(t, Separator(buffer))
    /\ pc' = [pc EXCEPT ![t] = "wc_marker"]
    /\ UNCHANGED <<lock, frame, history, reader_thread, wait_thread, joining, child,
                   calls, result, reads, pushes, alive>>

\* buffer.push_str("[stderr]\n")
Marker(t) ==
    /\ pc[t] = "wc_marker"
    /\ Push(t, StderrMarker)
    /\ pc' = [pc EXCEPT ![t] = "wc_text"]
    /\ UNCHANGED <<lock, frame, history, reader_thread, wait_thread, joining, child,
                   calls, result, reads, pushes, alive>>

\* mutant of Text: the chunk is pushed as a line of its own
TextAsLine(t) ==
    /\ pc[t] = "wc_text"
    /\ Push(t, frame[t].chunk \o <<NL>>)
    /\ pc' = [pc EXCEPT ![t] = "wc_unlock"]
    /\ UNCHANGED <<lock, frame, history, reader_thread, wait_thread, joining, child,
                   calls, result, reads, pushes, alive>>

\* buffer.push_str(chunk)
Text(t) ==
    /\ pc[t] = "wc_text"
    /\ Push(t, frame[t].chunk)
    /\ pc' = [pc EXCEPT ![t] = "wc_unlock"]
    /\ UNCHANGED <<lock, frame, history, reader_thread, wait_thread, joining, child,
                   calls, result, reads, pushes, alive>>

\* the MutexGuard is dropped at the end of write_chunk, which returns
Unlock(t) ==
    /\ pc[t] = "wc_unlock"
    /\ lock' = NoThread
    /\ pc' = [pc EXCEPT ![t] = frame[t].ret]
    /\ frame' = [frame EXCEPT ![t] = NoFrame]
    /\ UNCHANGED <<buffer, origin, history, reader_thread, wait_thread, joining,
                   child, calls, result, reads, pushes, alive>>

(* ------------------------------ caller -------------------------------- *)
\* push_output(stream, chunk), called by the owner of the PtyTerminal
push_output(stream, chunk) ==
    /\ alive
    /\ pc[Main] = "idle"
    /\ pushes + calls < MaxOps
    /\ pushes' = pushes + 1
    /\ Call(Main, stream, chunk, "idle", <<"push", 0, pushes + 1>>)
    /\ UNCHANGED <<buffer, origin, lock, history, reader_thread, wait_thread, joining,
                   child, calls, result, reads, alive>>

\* ui: the closure takes the lock to show the buffer
ui ==
    /\ alive
    /\ pc[Main] = "idle"
    /\ pc' = [pc EXCEPT ![Main] = "ui_lock"]
    /\ UNCHANGED <<buffer, origin, lock, frame, history, reader_thread, wait_thread,
                   joining, child, calls, result, reads, pushes, alive>>

\* let buffer = self.buffer.lock().expect(..)
UiLock ==
    /\ pc[Main] = "ui_lock"
    /\ CanLock(Main)
    /\ lock' = Main
    /\ pc' = [pc EXCEPT ![Main] = "ui_code"]
    /\ UNCHANGED <<buffer, origin, frame, history, reader_thread, wait_thread, joining,
                   child, calls, result, reads, pushes, alive>>

\* mutant of UiCode: the guard outlives the closure
UiCodeKeepsLock ==
    /\ pc[Main] = "ui_code"
    /\ pc' = [pc EXCEPT ![Main] = "idle"]
    /\ UNCHANGED <<buffer, origin, lock, frame, history, reader_thread, wait_thread,
                   joining, child, calls, result, reads, pushes, alive>>

\* ui.code(buffer.as_str()); the guard is dropped at the end of the closure
UiCode ==
    /\ pc[Main] = "ui_code"
    /\ lock' = NoThread
    /\ pc' = [pc EXCEPT ![Main] = "idle"]
    /\ UNCHANGED <<buffer, origin, frame, history, reader_thread, wait_thread, joining,
                   child, calls, result, reads, pushes, alive>>

\* the owner calls spawn_command(command)
spawn_command ==
    /\ alive
    /\ pc[Main] = "idle"
    /\ pushes + calls < MaxOps
    /\ calls' = calls + 1
    /\ result' = [result EXCEPT ![calls + 1] = "running"]
    /\ pc' = [pc EXCEPT ![Main] = "take_reader"]
    /\ UNCHANGED <<buffer, origin, lock, frame, history, reader_thread, wait_thread,
                   joining, child, reads, pushes, alive>>

\* mutant of Joinable: the handle is dropped without waiting for the thread
JoinableNoWait(t) == TRUE

\* JoinHandle::join returns only when the thread has finished
Joinable(t) == pc[t] \in {"done", "panicked", "lock_failed"}

\* if let Some(handle) = self.reader_thread.take()
TakeReader ==
    /\ pc[Main] = "take_reader"
    /\ joining' = reader_thread
    /\ reader_thread' = None
    /\ pc' = [pc EXCEPT ![Main] = IF reader_thread = None THEN "take_wait" ELSE "join_reader"]
    /\ UNCHANGED <<buffer, origin, lock, frame, history, wait_thread, child, calls,
                   result, reads, pushes, alive>>

\* let _ = handle.join();
JoinReader ==
    /\ pc[Main] = "join_reader"
    /\ Joinable(Reader(joining))
    /\ joining' = None
    /\ pc' = [pc EXCEPT ![Main] = "take_wait"]
    /\ UNCHANGED <<buffer, origin, lock, frame, history, reader_thread, wait_thread,
                   child, calls, result, reads, pushes, alive>>

\* mutant of TakeWait: the wait thread's handle is dropped, not joined
TakeWaitNoJoin ==
    /\ pc[Main] = "take_wait"
    /\ wait_thread' = None
    /\ pc' = [pc EXCEPT ![Main] = "launching"]
    /\ UNCHANGED <<buffer, origin, lock, frame, history, reader_thread, joining, child,
                   calls, result, reads, pushes, alive>>

\* if let Some(handle) = self.wait_thread.take()
TakeWait ==
    /\ pc[Main] = "take_wait"
    /\ joining' = wait_thread
    /\ wait_thread' = None
    /\ pc' = [pc EXCEPT ![Main] = IF wait_thread = None THEN "launching" ELSE "join_wait"]
    /\ UNCHANGED <<buffer, origin, lock, frame, history, reader_thread, child, calls,
                   result, reads, pushes, alive>>

\* let _ = handle.join();
JoinWait ==
    /\ pc[Main] = "join_wait"
    /\ Joinable(Waiter(joining))
    /\ joining' = None
    /\ pc' = [pc EXCEPT ![Main] = "launching"]
    /\ UNCHANGED <<buffer, origin, lock, frame, history, reader_thread, wait_thread,
                   child, calls, result, reads, pushes, alive>>

\* mutant of Launching: the child is created without the notice
LaunchingSkipped ==
    /\ pc[Main] = "launching"
    /\ pc' = [pc EXCEPT ![Main] = "spawn_child"]
    /\ UNCHANGED <<buffer, origin, lock, frame, history, reader_thread, wait_thread,
                   joining, child, calls, result, reads, pushes, alive>>

\* mutant of Launching: the log is cleared for the new command
LaunchingClears ==
    /\ pc[Main] = "launching"
    /\ buffer' = <<>>
    /\ origin' = <<>>
    /\ Call(Main, Stdout, LaunchingNotice, "spawn_child", <<"launch", calls, 1>>)
    /\ UNCHANGED <<lock, history, reader_thread, wait_thread, joining,
                   child, calls, result, reads, pushes, alive>>

\* self.push_output(CommandStream::Stdout, "Launching command...\n")
Launching ==
    /\ pc[Main] = "launching"
    /\ Call(Main, Stdout, LaunchingNotice, "spawn_child", <<"launch", calls, 1>>)
    /\ UNCHANGED <<buffer, origin, lock, history, reader_thread, wait_thread, joining,
                   child, calls, result, reads, pushes, alive>>

\* let mut child = self.pair.slave.spawn_command(command)?;
SpawnChild(ok) ==
    /\ pc[Main] = "spawn_child"
    /\ IF ok
       THEN /\ child' = [child EXCEPT ![calls].state = "running"]
            /\ pc' = [pc EXCEPT ![Main] = "clone_reader"]
            /\ UNCHANGED result
       ELSE /\ result' = [result EXCEPT ![calls] = "Err"]
            /\ pc' = [pc EXCEPT ![Main] = "idle"]
            /\ UNCHANGED child
    /\ UNCHANGED <<buffer, origin, lock, frame, history, reader_thread, wait_thread,
                   joining, calls, reads, pushes, alive>>

\* let reader = self.pair.master.try_clone_reader()?;
CloneReader(ok) ==
    /\ pc[Main] = "clone_reader"
    /\ IF ok
       THEN /\ pc' = [pc EXCEPT ![Main] = "start_reader"]
            /\ UNCHANGED result
       ELSE /\ result' = [result EXCEPT ![calls] = "Err"]
            /\ pc' = [pc EXCEPT ![Main] = "idle"]
    /\ UNCHANGED <<buffer, origin, lock, frame, history, reader_thread, wait_thread,
                   joining, child, calls, reads, pushes, alive>>

\* self.reader_thread = Some(thread::spawn(..))
StartReader ==
    /\ pc[Main] = "start_reader"
    /\ reader_thread' = calls
    /\ pc' = [pc EXCEPT ![Main] = "start_wait", ![Reader(calls)] = "read"]
    /\ UNCHANGED <<buffer, origin, lock, frame, history, wait_thread, joining, child,
                   calls, result, reads, pushes, alive>>

\* self.wait_thread = Some(thread::spawn(..))
StartWait ==
    /\ pc[Main] = "start_wait"
    /\ wait_thread' = calls
    /\ pc' = [pc EXCEPT ![Main] = "spawn_ret", ![Waiter(calls)] = "wait"]
    /\ UNCHANGED <<buffer, origin, lock, frame, history, reader_thread, joining, child,
                   calls, result, reads, pushes, alive>>

\* mutant of SpawnReturn: the call returns once the new reader has finished
SpawnReturnJoined ==
    /\ pc[Main] = "spawn_ret"
    /\ Joinable(Reader(calls))
    /\ result' = [result EXCEPT ![calls] = "Ok"]
    /\ pc' = [pc EXCEPT ![Main] = "idle"]
    /\ UNCHANGED <<buffer, origin, lock, frame, history, reader_thread, wait_thread,
                   joining, child, calls, reads, pushes, alive>>

\* Ok(())
SpawnReturn ==
    /\ pc[Main] = "spawn_ret"
    /\ result' = [result EXCEPT ![calls] = "Ok"]
    /\ pc' = [pc EXCEPT ![Main] = "idle"]
    /\ UNCHANGED <<buffer, origin, lock, frame, history, reader_thread, wait_thread,
                   joining, child, calls, reads, pushes, alive>>

\* the owner drops the PtyTerminal: its PtyPair closes both ends it holds;
\* the threads are detached and keep running
DropTerminal ==
    /\ alive
    /\ pc[Main] = "idle"
    /\ alive' = FALSE
    /\ UNCHANGED <<buffer, origin, lock, frame, history, reader_thread, wait_thread,
                   joining, child, calls, result, reads, pushes, pc>>

(* --------------------------- child process ---------------------------- *)
\* the child of generation g exits with a code
ChildExit(g, code) ==
    /\ child[g].state = "running"
    /\ child' = [child EXCEPT ![g] = [state |-> "exited", code |-> code]]
    /\ UNCHANGED <<buffer, origin, lock, frame, history, reader_thread, wait_thread,
                   joining, calls, result, reads, pushes, alive, pc>>

(* ---------------------------- reader thread --------------------------- *)
\* some process holds the subordinate end of the PTY open: the PtyTerminal's
\* PtyPair (pair.slave) for as long as it lives, and every running child
SlaveOpen == alive \/ \E g \in Gens : child[g].state = "running"

\* mutant of ReadUpTo: the chunk is decoded from the bytes of the first read
ReadUpToStale(g, bytes, limit) ==
    /\ pc[Reader(g)] = "read"
    /\ Len(reads[g].data) < limit
    /\ reads' = [reads EXCEPT ![g].data = Append(@, bytes)]
    /\ Call(Reader(g), Stdout,
            from_utf8_lossy(IF reads[g].data = <<>> THEN bytes ELSE reads[g].data[1]),
            "read", <<"reader", g, Len(reads[g].data) + 1>>)
    /\ UNCHANGED <<buffer, origin, lock, history, reader_thread, wait_thread, joining,
                   child, calls, result, pushes, alive>>

\* Ok(n), n > 0, at most limit times: from_utf8_lossy(&buf[..n]) and
\* write_chunk(.., Stdout, &chunk); reads[g].data keeps the bytes of each read
ReadUpTo(g, bytes, limit) ==
    /\ pc[Reader(g)] = "read"
    /\ Len(reads[g].data) < limit
    /\ reads' = [reads EXCEPT ![g].data = Append(@, bytes)]
    /\ Call(Reader(g), Stdout, from_utf8_lossy(bytes), "read",
            <<"reader", g, Len(reads[g].data) + 1>>)
    /\ UNCHANGED <<buffer, origin, lock, history, reader_thread, wait_thread, joining,
                   child, calls, result, pushes, alive>>

\* Ok(n) => { .. }
ReadData(g, bytes) == ReadUpTo(g, bytes, MaxReads)

\* mutant of ReadEof: Ok(0) is handled as a chunk of no bytes and the loop
\* goes on
ReadEofAsChunk(g) ==
    /\ pc[Reader(g)] = "read"
    /\ ~SlaveOpen
    /\ ~reads[g].zero
    /\ reads' = [reads EXCEPT ![g].zero = TRUE]
    /\ Call(Reader(g), Stdout, <<>>, "read", <<"reader", g, Len(reads[g].data) + 1>>)
    /\ UNCHANGED <<buffer, origin, lock, history, reader_thread, wait_thread, joining,
                   child, calls, result, pushes, alive>>

\* Ok(0) => break: the read returns end of stream once no process holds
\* the subordinate end open
ReadEof(g) ==
    /\ pc[Reader(g)] = "read"
    /\ ~SlaveOpen
    /\ reads' = [reads EXCEPT ![g].zero = TRUE]
    /\ pc' = [pc EXCEPT ![Reader(g)] = "done"]
    /\ UNCHANGED <<buffer, origin, lock, frame, history, reader_thread, wait_thread,
                   joining, child, calls, result, pushes, alive>>

\* mutant of ReadErr: the loop goes on after the diagnostic (no break)
ReadErrContinue(g, cause) ==
    /\ pc[Reader(g)] = "read"
    /\ Call(Reader(g), Stderr, ReaderErrorPrefix \o cause \o <<NL>>, "read",
            <<"reader", g, 0>>)
    /\ UNCHANGED <<buffer, origin, lock, history, reader_thread, wait_thread, joining,
                   child, calls, result, reads, pushes, alive>>

\* Err(err): write_chunk(.., Stderr, "reader error: {err}\n") and break
ReadErr(g, cause) ==
    /\ pc[Reader(g)] = "read"
    /\ Call(Reader(g), Stderr, ReaderErrorPrefix \o cause \o <<NL>>, "done",
            <<"reader", g, 0>>)
    /\ UNCHANGED <<buffer, origin, lock, history, reader_thread, wait_thread, joining,
                   child, calls, result, reads, pushes, alive>>

(* ----------------------------- wait thread ---------------------------- *)
\* mutant of success: every exit status counts as a success
successAlways(code) == TRUE

\* ExitStatus::success
success(code) == code = 0

\* the notice of an exit status: its stream and its text
ExitNotice(code) ==
    IF success(code)
    THEN [stream |-> Stdout, chunk |-> CompletedNotice]
    ELSE [stream |-> Stderr, chunk |-> ExitedPrefix \o ToDecimal(code) \o ExitedSuffix]

\* child.wait() returns Ok(status) once the child has exited
WaitOk(g) ==
    /\ pc[Waiter(g)] = "wait"
    /\ child[g].state = "exited"
    /\ Call(Waiter(g), ExitNotice(child[g].code).stream, ExitNotice(child[g].code).chunk,
            "done", <<"wait", g, 1>>)
    /\ UNCHANGED <<buffer, origin, lock, history, reader_thread, wait_thread, joining,
                   child, calls, result, reads, pushes, alive>>

\* mutant of WaitErr: after the notice the thread waits on the child again
WaitErrRetry(g, cause) ==
    /\ pc[Waiter(g)] = "wait"
    /\ Call(Waiter(g), Stderr, WaitFailedPrefix \o cause \o <<NL>>, "wait",
            <<"waiterr", g, 1>>)
    /\ UNCHANGED <<buffer, origin, lock, history, reader_thread, wait_thread, joining,
                   child, calls, result, reads, pushes, alive>>

\* child.wait() returns Err(err)
WaitErr(g, cause) ==
    /\ pc[Waiter(g)] = "wait"
    /\ Call(Waiter(g), Stderr, WaitFailedPrefix \o cause \o <<NL>>, "done",
            <<"waiterr", g, 1>>)
    /\ UNCHANGED <<buffer, origin, lock, history, reader_thread, wait_thread, joining,
                   child, calls, result, reads, pushes, alive>>

Next ==
    \/ \E s \in CommandStream, c \in PushChunks : push_output(s, c)
    \/ \E t \in Threads : Lock(t)
    \/ \E t \in Threads : Sep(t)
    \/ \E t \in Threads : Marker(t)
    \/ \E t \in Threads : Text(t)
    \/ \E t \in Threads : Unlock(t)
    \/ ui
    \/ UiLock
    \/ UiCode
    \/ spawn_command
    \/ TakeReader
    \/ JoinReader
    \/ TakeWait
    \/ JoinWait
    \/ Launching
    \/ \E ok \in BOOLEAN : SpawnChild(ok)
    \/ \E ok \in BOOLEAN : CloneReader(ok)
    \/ StartReader
    \/ StartWait
    \/ SpawnReturn
    \/ DropTerminal
    \/ \E g \in Gens, code \in ExitCodes : ChildExit(g, code)
    \/ \E g \in Gens, bytes \in ReadBytes : ReadData(g, bytes)
    \/ \E g \in Gens : ReadEof(g)
    \/ \E g \in Gens, cause \in Causes : ReadErr(g, cause)
    \/ \E g \in Gens : WaitOk(g)
    \/ \E g \in Gens, cause \in Causes : WaitErr(g, cause)

Spec == Init /\ [][Next]_vars

(* The session of one command whose output comes in several reads: the
   owner calls spawn_command once and push_output, and the reader thread
   gets the bytes of StreamBytes in up to MaxStreamReads reads. *)
StreamNext ==
    \/ \E c \in PushChunks : push_output(Stderr, c)
    \/ \E t \in Threads : Lock(t)
    \/ \E t \in Threads : Sep(t)
    \/ \E t \in Threads : Marker(t)
    \/ \E t \in Threads : Text(t)
    \/ \E t \in Threads : Unlock(t)
    \/ calls = 0 /\ spawn_command
    \/ TakeReader
    \/ TakeWait
    \/ Launching
    \/ SpawnChild(TRUE)
    \/ CloneReader(TRUE)
    \/ StartReader
    \/ StartWait
    \/ SpawnReturn
    \/ DropTerminal
    \/ \E g \in Gens : ChildExit(g, 0)
    \/ \E g \in Gens, bytes \in StreamBytes : ReadUpTo(g, bytes, MaxStreamReads)
    \/ \E g \in Gens : ReadEof(g)
    \/ \E g \in Gens, cause \in Causes : ReadErr(g, cause)
    \/ \E g \in Gens : WaitOk(g)

StreamSpec == Init /\ [][StreamNext]_vars

(* The session in which the owner only calls push_output and ui: no
   command is spawned, so the owner's thread is the only appender. *)
OwnerNext ==
    \/ \E s \in CommandStream, c \in PushChunks : push_output(s, c)
    \/ \E t \in Threads : Lock(t)
    \/ \E t \in Threads : Sep(t)
    \/ \E t \in Threads : Marker(t)
    \/ \E t \in Threads : Text(t)
    \/ \E t \in Threads : Unlock(t)
    \/ ui
    \/ UiLock
    \/ UiCode

OwnerSpec == Init /\ [][OwnerNext]_vars

(* ------------------------- a poisoned mutex -------------------------- *)
\* the value of lock when the Mutex is free and poisoned: a thread panicked
\* while it held the guard
Poisoned == <<"poisoned", 0>>

\* the owner's thread has not panicked: the process is running
ProcessUp == pc[Main] \notin {"panicked", "lock_failed"}

\* thread t ends by a panic, in state why; a panic of the owner's thread
\* ends the process and with it every thread that still runs
Unwind(t, why) ==
    pc' = [u \in Threads |->
             IF u = t THEN why
             ELSE IF t = Main /\ pc[u] \notin {"unborn", "done", "panicked", "lock_failed"}
             THEN "killed"
             ELSE pc[u]]

\* the holder of the guard panics in a statement under the lock (a push in
\* write_chunk, ui.code in ui); unwinding drops the guard, which poisons
\* the Mutex, and ends the thread
Panic(t) ==
    /\ lock = t
    /\ pc[t] \in {"wc_sep", "wc_marker", "wc_text", "ui_code"}
    /\ lock' = Poisoned
    /\ Unwind(t, "panicked")
    /\ frame' = [frame EXCEPT ![t] = NoFrame]
    /\ UNCHANGED <<buffer, origin, history, reader_thread, wait_thread, joining,
                   child, calls, result, reads, pushes, alive>>

\* write_chunk: buffer.lock() returns Err(PoisonError) and expect panics,
\* which ends the calling thread
LockPoisoned(t) ==
    /\ pc[t] = "wc_lock"
    /\ lock = Poisoned
    /\ Unwind(t, "lock_failed")
    /\ frame' = [frame EXCEPT ![t] = NoFrame]
    /\ UNCHANGED <<buffer, origin, lock, history, reader_thread, wait_thread, joining,
                   child, calls, result, reads, pushes, alive>>

\* ui: self.buffer.lock() returns Err(PoisonError) and expect panics
UiLockPoisoned ==
    /\ pc[Main] = "ui_lock"
    /\ lock = Poisoned
    /\ Unwind(Main, "lock_failed")
    /\ UNCHANGED <<buffer, origin, lock, frame, history, reader_thread, wait_thread,
                   joining, child, calls, result, reads, pushes, alive>>

(* The session in which a statement under the lock may panic.  A panic of
   the owner's thread ends the process, and with it every thread. *)
PoisonNext ==
    \/ Next
    \/ \E t \in Threads : Panic(t)
    \/ \E t \in Threads : LockPoisoned(t)
    \/ UiLockPoisoned

PoisonSpec == Init /\ [][PoisonNext]_vars

(* A thread that can take a step takes it; a thread waiting for the mutex
   gets it if it is free again and again.  Nothing makes the owner call the
   API, the child exit, or a read or a wait fail; a read returns end of
   stream once no process holds the subordinate end. *)
Fairness ==
    /\ \A t \in Threads :
          /\ SF_vars(Lock(t))
          /\ WF_vars(Sep(t)) /\ WF_vars(Marker(t)) /\ WF_vars(Text(t))
          /\ WF_vars(Unlock(t))
    /\ SF_vars(UiLock) /\ WF_vars(UiCode)
    /\ WF_vars(TakeReader) /\ WF_vars(JoinReader)
    /\ WF_vars(TakeWait) /\ WF_vars(JoinWait)
    /\ WF_vars(Launching)
    /\ WF_vars(\E ok \in BOOLEAN : SpawnChild(ok))
    /\ WF_vars(\E ok \in BOOLEAN : CloneReader(ok))
    /\ WF_vars(StartReader) /\ WF_vars(StartWait) /\ WF_vars(SpawnReturn)
    /\ \A g \in Gens : WF_vars(WaitOk(g)) /\ WF_vars(ReadEof(g))

FairSpec == Init /\ [][Next]_vars /\ Fairness

(* ------------------------- auxiliary operators ------------------------ *)
Running(t) == pc[t] \notin {"unborn", "done", "panicked", "lock_failed", "killed"}

IsPrefix(s, t) == Len(s) <= Len(t) /\ SubSeq(t, 1, Len(s)) = s

\* the generation an append belongs to; 0 for a push_output of the owner
GenOf(tag) == tag[2]

\* the appends h[1..n] applied one after the other to an empty String
RECURSIVE ApplyAll(_, _)
ApplyAll(h, n) ==
    IF n = 0 THEN <<>>
    ELSE LET s == ApplyAll(h, n - 1)
         IN IF h[n].stream = "Stdout" THEN s \o h[n].chunk
            ELSE s \o (IF Len(s) > 0 /\ s[Len(s)] = 10 THEN <<>> ELSE <<10>>)
                   \o <<91, 115, 116, 100, 101, 114, 114, 93, 10>> \o h[n].chunk

\* the chunks of h[m+1..n], concatenated
RECURSIVE ConcatChunks(_, _, _)
ConcatChunks(h, m, n) ==
    IF n <= m THEN <<>> ELSE ConcatChunks(h, m, n - 1) \o h[n].chunk

\* the number of characters of the log before run k
RECURSIVE RunStart(_)
RunStart(k) == IF k <= 1 THEN 0 ELSE RunStart(k - 1) + origin[k - 1].len

\* the text of run k
RunText(k) == SubSeq(buffer, RunStart(k) + 1, RunStart(k) + origin[k].len)

\* the characters of the log written by the append tagged tag, in log order
RECURSIVE TextFrom(_, _)
TextFrom(tag, k) ==
    IF k > Len(origin) THEN <<>>
    ELSE (IF origin[k].tag = tag THEN RunText(k) ELSE <<>>) \o TextFrom(tag, k + 1)
TextOf(tag) == TextFrom(tag, 1)

\* the append tagged tag has written to the log
InLog(tag) == \E k \in DOMAIN origin : origin[k].tag = tag

\* the characters of one append are next to each other in the log: no two
\* runs of the log are of the same append
Contiguous ==
    \A i, k \in DOMAIN origin : origin[i].tag = origin[k].tag => i = k

(* ------------------------------ claims -------------------------------- *)

\* C1: at most one reader thread and at most one wait thread run at any
\* time, and the child of a spawn_command call exists only when every
\* reader and wait thread of the earlier calls has terminated.
C1_OneGeneration ==
    /\ Cardinality({g \in Gens : Running(Reader(g))}) <= 1
    /\ Cardinality({g \in Gens : Running(Waiter(g))}) <= 1
    /\ \A g \in Gens : child[g].state # "none" =>
          \A h \in Gens : h < g => ~Running(Reader(h)) /\ ~Running(Waiter(h))
    /\ \A g \in Gens : Running(Reader(g)) \/ Running(Waiter(g)) =>
          \A h \in Gens : h < g => ~Running(Reader(h)) /\ ~Running(Waiter(h))

\* C1 witness: the second call has launched its child and both its threads,
\* after both threads of the first call were launched and have terminated.
C1_Witness ==
    /\ calls = 2
    /\ pc[Reader(1)] = "done" /\ pc[Waiter(1)] = "done"
    /\ child[2].state = "running"
    /\ Running(Reader(2)) /\ Running(Waiter(2))

\* C2: in the log, no text of a later spawn_command call comes before any
\* text of an earlier call (launching notice, reader chunks, reader error
\* block, exit notice).
C2_GenerationsInOrder ==
    \A i, j \in DOMAIN origin :
        (i < j /\ GenOf(origin[i].tag) > 0 /\ GenOf(origin[j].tag) > 0)
            => GenOf(origin[i].tag) <= GenOf(origin[j].tag)

\* C2 witness: the first call's child exited with success and the log holds
\* its "Command completed successfully.\n" and a reader chunk of the second
\* call behind it.
C2_Witness ==
    /\ TextOf(<<"wait", 1, 1>>) = CompletedNotice
    /\ TextOf(<<"launch", 2, 1>>) = LaunchingNotice
    /\ InLog(<<"reader", 2, 1>>)

\* C3: when a Stderr write_chunk has pushed its chunk, the log is the log L
\* it found, then "\n" unless L ended with a newline, then "[stderr]\n",
\* then the chunk.
C3_StderrAppend ==
    \A t \in Threads :
        (pc[t] = "wc_unlock" /\ frame[t].stream = "Stderr") =>
            LET L == SubSeq(buffer, 1, frame[t].start)
                sep == IF Len(L) > 0 /\ L[Len(L)] = 10 THEN <<>> ELSE <<10>>
            IN buffer = L \o sep \o <<91, 115, 116, 100, 101, 114, 114, 93, 10>>
                          \o frame[t].chunk

\* C3 witness (Scenario B): push(Stdout, "a"), push(Stderr, "err\n") gives
\* "a\n[stderr]\nerr\n".
C3_Witness ==
    /\ pc[Main] = "wc_unlock" /\ frame[Main].stream = "Stderr"
    /\ frame[Main].start = 1
    /\ buffer = <<97, 10, 91, 115, 116, 100, 101, 114, 114, 93, 10, 101, 114, 114, 10>>

\* the index of the last append of h that is not a Stdout append, or 0
LastTagged(h) ==
    LET S == {i \in DOMAIN h : h[i].stream # "Stdout"}
    IN IF S = {} THEN 0 ELSE CHOOSE i \in S : \A k \in S : k <= i

\* C4: when the owner has only called push_output and is back from the last
\* call, the log is the log as the last non-Stdout push left it, followed by
\* the chunks of the Stdout pushes since, in push order and nothing else.
C4_StdoutConcat ==
    (calls = 0 /\ pc[Main] = "idle") =>
        LET m == LastTagged(history)
        IN buffer = ApplyAll(history, m) \o ConcatChunks(history, m, Len(history))

\* C4 witness (Scenario A): push(Stdout, "a"), push(Stdout, "err\n").
C4_Witness ==
    /\ calls = 0 /\ pc[Main] = "idle" /\ pushes = 2
    /\ LastTagged(history) = 0
    /\ buffer = <<97, 101, 114, 114, 10>>

\* C5: the characters of one append are next to each other in the log, and
\* whenever no append is under way (the mutex is free, or ui holds it and
\* shows the log) the log is the appends so far, each applied whole, in the
\* order they took the mutex.
C5_AtomicAppends ==
    /\ Contiguous
    /\ (lock = NoThread \/ pc[Main] = "ui_code") =>
          buffer = ApplyAll(history, Len(history))

\* C5 witness: ui holds the mutex while the wait thread is about to append a
\* Stderr notice and the reader's Stderr error block is in the log.
C5_Witness ==
    /\ pc[Main] = "ui_code"
    /\ \E g \in Gens :
          /\ pc[Waiter(g)] = "wc_lock" /\ frame[Waiter(g)].stream = "Stderr"
          /\ InLog(<<"reader", g, 0>>)

\* "[stderr]\n" + text, after a newline of the log or of its own
Block(text) ==
    { <<91, 115, 116, 100, 101, 114, 114, 93, 10>> \o text,
      <<10, 91, 115, 116, 100, 101, 114, 114, 93, 10>> \o text }

\* "Command exited with status <code>.\n" for the exit codes of the model
ExitedText(code) ==
    CASE code = 2 -> <<67, 111, 109, 109, 97, 110, 100, 32, 101, 120, 105, 116, 101,
                       100, 32, 119, 105, 116, 104, 32, 115, 116, 97, 116, 117, 115,
                       32, 50, 46, 10>>
      [] code = 10 -> <<67, 111, 109, 109, 97, 110, 100, 32, 101, 120, 105, 116, 101,
                        100, 32, 119, 105, 116, 104, 32, 115, 116, 97, 116, 117, 115,
                        32, 49, 48, 46, 10>>
      [] OTHER -> <<>>

\* "Failed to wait on command: <cause>\n"
WaitFailedText(cause) ==
    <<70, 97, 105, 108, 101, 100, 32, 116, 111, 32, 119, 97, 105, 116, 32, 111, 110,
      32, 99, 111, 109, 109, 97, 110, 100, 58, 32>> \o cause \o <<10>>

\* the texts an outcome of the wait thread shows as in the log
OutcomeTexts ==
    {CompletedNotice}
        \cup UNION {Block(ExitedText(c)) : c \in ExitCodes \ {0}}
        \cup UNION {Block(WaitFailedText(e)) : e \in Causes}

\* the appends of the wait thread of call g, by their place in history
OutcomesOf(g) ==
    {i \in DOMAIN history :
        history[i].tag[1] \in {"wait", "waiterr"} /\ history[i].tag[2] = g}

\* the text in the log of the outcomes of call g
OutcomeLog(g) == TextOf(<<"wait", g, 1>>) \o TextOf(<<"waiterr", g, 1>>)

\* C6 (as amended): a spawn_command call never has more than one outcome
\* notice; once its wait thread has terminated it has exactly one, whole in
\* the log and one of the three texts; the wait thread never waits again
\* after its notice; a call that returned an error has no wait thread and
\* no outcome.
C6_OneOutcome ==
    \A g \in Gens :
        /\ Cardinality(OutcomesOf(g)) <= 1
        /\ pc[Waiter(g)] = "done" =>
              Cardinality(OutcomesOf(g)) = 1 /\ OutcomeLog(g) \in OutcomeTexts
        /\ pc[Waiter(g)] \in {"unborn", "wait"} => OutcomesOf(g) = {}
        /\ result[g] = "Err" => pc[Waiter(g)] = "unborn"

\* C6 witness: a successful call's wait thread has terminated with its one
\* notice in the log.
C6_Witness ==
    \E g \in Gens :
        /\ result[g] = "Ok" /\ pc[Waiter(g)] = "done"
        /\ Cardinality(OutcomesOf(g)) = 1
        /\ OutcomeLog(g) \in Block(ExitedText(2))

\* C6 as stated: every spawn_command call that has returned and has no wait
\* thread still running has exactly one outcome notice.
C6_EverySpawnOneOutcome ==
    \A g \in Gens :
        (result[g] \in {"Ok", "Err"} /\ ~Running(Waiter(g)))
            => Cardinality(OutcomesOf(g)) = 1

\* C7: the notice of the wait thread is the one of the child's exit: exit
\* code 0 gives "Command completed successfully.\n" as a Stdout chunk, with
\* no marker in the log; another code c gives "Command exited with status
\* c.\n" as a Stderr block; a wait error gives "Failed to wait on command:
\* <cause>\n" as a Stderr block.
C7_NoticeOfExit ==
    \A g \in Gens :
        /\ \A i \in OutcomesOf(g) :
              IF history[i].tag[1] = "wait"
              THEN /\ child[g].state = "exited"
                   /\ IF child[g].code = 0
                      THEN /\ history[i].stream = "Stdout"
                           /\ history[i].chunk = CompletedNotice
                      ELSE /\ history[i].stream = "Stderr"
                           /\ history[i].chunk = ExitedText(child[g].code)
              ELSE /\ history[i].stream = "Stderr"
                   /\ \E e \in Causes : history[i].chunk = WaitFailedText(e)
        /\ pc[Waiter(g)] = "done" =>
              IF InLog(<<"waiterr", g, 1>>)
              THEN \E e \in Causes : OutcomeLog(g) \in Block(WaitFailedText(e))
              ELSE IF child[g].code = 0
              THEN OutcomeLog(g) = CompletedNotice
              ELSE OutcomeLog(g) \in Block(ExitedText(child[g].code))

\* C7 witness (Scenario D): the child exited with code 2 and the log holds
\* "Command exited with status 2.\n" as a Stderr block.
C7_Witness ==
    \E g \in Gens :
        /\ child[g] = [state |-> "exited", code |-> 2]
        /\ pc[Waiter(g)] = "done"
        /\ TextOf(<<"wait", g, 1>>) \in Block(ExitedText(2))

\* C8 as stated: once the child of a successful spawn_command call has
\* exited, its wait thread and its reader thread eventually terminate, and
\* a later call joining that reader eventually gets past the join.
C8_ExitUnblocks ==
    \A g \in Gens :
        /\ (child[g].state = "exited" /\ result[g] = "Ok")
              ~> (pc[Waiter(g)] = "done" /\ pc[Reader(g)] = "done")
        /\ (pc[Main] = "join_reader" /\ joining = g /\ child[g].state = "exited")
              ~> (pc[Main] # "join_reader")

\* C9: every step leaves the log as it was or extends it: the log before
\* the step is a prefix of the log after it.
C9_AppendOnly == [][IsPrefix(buffer, buffer')]_vars

\* C9 witness: the second spawn_command call has appended its launching
\* notice behind the text of the first call, which is still in the log.
C9_Witness ==
    /\ calls = 2
    /\ Len(origin) >= 3
    /\ origin[1].tag = <<"launch", 1, 1>>
    /\ InLog(<<"wait", 1, 1>>)
    /\ origin[Len(origin)].tag = <<"launch", 2, 1>>
    /\ SubSeq(buffer, 1, Len(LaunchingNotice)) = LaunchingNotice

\* the places where spawn_command is after the join barrier
AfterBarrier ==
    {"launching", "spawn_child", "clone_reader", "start_reader", "start_wait",
     "spawn_ret"}

\* C10: spawn_command waits for a thread only at its two joins, and only for
\* a thread of an earlier call whose handle was stored; after the joins no
\* step of the call waits: the mutex is free for the launching notice, and
\* the call returns Ok whether or not the new child and threads have
\* finished.
C10_BlocksOnPreviousOnly ==
    /\ pc[Main] \in {"join_reader", "join_wait"} =>
          joining # None /\ joining < calls
    /\ pc[Main] = "join_reader" => pc[Reader(joining)] # "unborn"
    /\ pc[Main] = "join_wait" => pc[Waiter(joining)] # "unborn"
    /\ pc[Main] = "take_reader" => ENABLED TakeReader
    /\ pc[Main] = "take_wait" => ENABLED TakeWait
    /\ pc[Main] = "launching" => ENABLED Launching
    /\ (pc[Main] = "wc_lock" /\ frame[Main].tag[1] = "launch") => ENABLED Lock(Main)
    /\ pc[Main] = "spawn_child" => ENABLED SpawnChild(TRUE)
    /\ pc[Main] = "clone_reader" => ENABLED CloneReader(TRUE)
    /\ pc[Main] = "start_reader" => ENABLED StartReader
    /\ pc[Main] = "start_wait" => ENABLED StartWait
    /\ pc[Main] = "spawn_ret" => ENABLED SpawnReturn
    /\ (reader_thread = None /\ wait_thread = None) =>
          pc[Main] \notin {"join_reader", "join_wait"} \/ joining # None

\* C10 witness: a call has returned Ok while its child and both its threads
\* are still running.
C10_Witness ==
    \E g \in Gens :
        /\ result[g] = "Ok" /\ pc[Main] = "idle"
        /\ child[g].state = "running"
        /\ pc[Reader(g)] = "read" /\ pc[Waiter(g)] = "wait"

\* the appends of call g in the log other than its launching notice
OtherRunsOf(g) ==
    {k \in DOMAIN origin :
        GenOf(origin[k].tag) = g /\ origin[k].tag # <<"launch", g, 1>>}

\* C11 as stated: a spawn_command call that returned an error has launched
\* no reader and no wait thread and left both handle slots empty, and its
\* only effects are the joins and the launching notice: nothing else of the
\* call is in the log and no child of the call exists.
C11_FailedSpawnNoEffect ==
    \A g \in Gens :
        result[g] = "Err" =>
            /\ pc[Reader(g)] = "unborn" /\ pc[Waiter(g)] = "unborn"
            /\ calls = g => (reader_thread = None /\ wait_thread = None)
            /\ TextOf(<<"launch", g, 1>>) = LaunchingNotice
            /\ OtherRunsOf(g) = {}
            /\ child[g].state = "none"

\* C12 as stated: once the Mutex is poisoned, a log operation of any thread
\* (push_output, ui, an append of a reader or of a wait thread) is a failure
\* of the whole process: no thread has failed to take the lock while the
\* process keeps running.
C12_PoisonIsFatal ==
    \A t \in Threads : pc[t] = "lock_failed" => ~ProcessUp

\* "reader error: <cause>"
ReaderErrorText(cause) ==
    <<114, 101, 97, 100, 101, 114, 32, 101, 114, 114, 111, 114, 58, 32>> \o cause

\* the appends of reader thread g, by their place in history
ReaderAppends(g) ==
    {i \in DOMAIN history : history[i].tag[1] = "reader" /\ history[i].tag[2] = g}

\* the diagnostics of reader thread g, by their place in history
ErrAppends(g) == {i \in DOMAIN history : history[i].tag = <<"reader", g, 0>>}

\* C13 (as amended): a reader thread appends at most one diagnostic; it is
\* a Stderr block whose text is "reader error: <cause>\n"; it is the last
\* append of the thread, which then terminates without reading again; the
\* spawn_command call of the thread does not return the error.
C13_ReadError ==
    \A g \in Gens :
        /\ Cardinality(ErrAppends(g)) <= 1
        /\ \A i \in ErrAppends(g) :
              /\ history[i].stream = "Stderr"
              /\ \E e \in Causes : history[i].chunk = ReaderErrorText(e) \o <<10>>
              /\ \A j \in ReaderAppends(g) : j <= i
              /\ pc[Reader(g)] \in {"wc_sep", "wc_marker", "wc_text", "wc_unlock", "done"}
              /\ pc[Reader(g)] # "done" => frame[Reader(g)].ret = "done"
              /\ pc[Reader(g)] = "done" =>
                    \E e \in Causes :
                        TextOf(<<"reader", g, 0>>) \in Block(ReaderErrorText(e) \o <<10>>)
              /\ result[g] # "Err"

\* C13 witness: a reader thread has terminated on a read error after a read
\* of data, its diagnostic is in the log, its call returned Ok, and the next
\* call has joined it and gone on.
C13_Witness ==
    /\ pc[Reader(1)] = "done" /\ ErrAppends(1) # {}
    /\ Len(reads[1].data) = 1
    /\ result[1] = "Ok"
    /\ calls = 2 /\ pc[Main] = "spawn_child"

\* C13 as stated: the text of the diagnostic is "reader error: <cause>".
C13_DiagnosticText ==
    \A g \in Gens : \A i \in ErrAppends(g) :
        /\ history[i].stream = "Stderr"
        /\ \E e \in Causes : history[i].chunk = ReaderErrorText(e)

\* C14: once a reader thread has read zero bytes it is terminated, it is in
\* no write_chunk call, and what it appended is exactly one chunk per read of
\* data made before: nothing is appended for the zero-byte read, neither a
\* chunk nor a diagnostic, and no read follows it.
C14_ZeroReadTerminates ==
    \A g \in Gens :
        reads[g].zero =>
            /\ pc[Reader(g)] = "done"
            /\ frame[Reader(g)] = NoFrame
            /\ ErrAppends(g) = {}
            /\ Cardinality(ReaderAppends(g)) = Len(reads[g].data)
            /\ \A i \in ReaderAppends(g) :
                  /\ history[i].stream = "Stdout"
                  /\ history[i].tag[3] \in 1..Len(reads[g].data)
                  /\ history[i].chunk = from_utf8_lossy(reads[g].data[history[i].tag[3]])

\* C14 witness: a reader thread read data, then zero bytes, and the wait
\* thread of the same call appended its notice after the chunk.
C14_Witness ==
    /\ reads[1].zero /\ Len(reads[1].data) = 1
    /\ InLog(<<"reader", 1, 1>>)
    /\ InLog(<<"wait", 1, 1>>)
    /\ pc[Waiter(1)] = "done"

\* the positions of the owner's thread inside ui
InUi(p) == p \in {"ui_lock", "ui_code"}

\* C15: no step of ui changes the log or a handle slot; no thread changes
\* the log while ui holds the lock; the handle slots stay as they are for the
\* whole call; ui holds the lock exactly while it shows the log, and when it
\* returns the lock is free.
C15_RenderReadOnly ==
    [][ /\ (pc[Main] # pc'[Main] /\ (InUi(pc[Main]) \/ InUi(pc'[Main]))) =>
              /\ buffer' = buffer
              /\ history' = history
              /\ reader_thread' = reader_thread
              /\ wait_thread' = wait_thread
        /\ InUi(pc[Main]) =>
              (reader_thread' = reader_thread /\ wait_thread' = wait_thread)
        /\ pc[Main] = "ui_code" => (lock = Main /\ buffer' = buffer)
        /\ pc[Main] = "ui_lock" => lock # Main
        /\ (pc[Main] = "ui_code" /\ pc'[Main] # "ui_code") =>
              (pc'[Main] = "idle" /\ lock' = NoThread)
      ]_vars

\* C15 witness: ui holds the lock over a log that is not empty while the
\* reader thread and the wait thread of a call both wait for the lock.
C15_Witness ==
    /\ pc[Main] = "ui_code" /\ lock = Main
    /\ buffer # <<>>
    /\ pc[Reader(1)] = "wc_lock" /\ pc[Waiter(1)] = "wc_lock"
    /\ reader_thread # None /\ wait_thread # None

\* the place in history of the append tagged tag: the place of its call in
\* the order in which the lock was acquired
HistPos(tag) == CHOOSE i \in DOMAIN history : history[i].tag = tag

\* the text of append a is in the log before the text of append b
Before(a, b) ==
    \E i, k \in DOMAIN origin : i < k /\ origin[i].tag = a /\ origin[k].tag = b

\* the appends of the reader thread and of the wait thread
OfTasks(tag) == tag[1] \in {"reader", "wait", "waiterr"}

\* C16: the texts of the reader thread and of the wait thread of one call
\* are in the log in the order in which the two threads acquired the lock,
\* whichever that order is.
C16_LockOrder ==
    \A i, k \in DOMAIN origin :
        (/\ i < k
         /\ OfTasks(origin[i].tag) /\ OfTasks(origin[k].tag)
         /\ GenOf(origin[i].tag) = GenOf(origin[k].tag)) =>
            /\ \E n \in DOMAIN history : history[n].tag = origin[i].tag
            /\ \E n \in DOMAIN history : history[n].tag = origin[k].tag
            /\ HistPos(origin[i].tag) < HistPos(origin[k].tag)

\* C16 witness: both orders in one log: the notice of the first call is
\* before the reader chunk of that call, and the notice of the second call
\* is after the reader chunk of that call, the reader thread reading no more.
C16_Witness ==
    /\ Before(<<"wait", 1, 1>>, <<"reader", 1, 1>>)
    /\ Before(<<"reader", 2, 1>>, <<"wait", 2, 1>>)
    /\ pc[Waiter(2)] = "done"
    /\ Len(reads[2].data) = MaxReads

(* A unit of text in bytes, said without the decoder: a scalar value in its
   shortest form of one to four bytes. *)
Encode(cp) ==
    IF cp < 128 THEN <<cp>>
    ELSE IF cp < 2048 THEN <<192 + (cp \div 64), 128 + (cp % 64)>>
    ELSE IF cp < 65536
    THEN <<224 + (cp \div 4096), 128 + ((cp \div 64) % 64), 128 + (cp % 64)>>
    ELSE <<240 + (cp \div 262144), 128 + ((cp \div 4096) % 64),
           128 + ((cp \div 64) % 64), 128 + (cp % 64)>>

IsScalar(cp) == cp >= 0 /\ cp <= 1114111 /\ ~(cp >= 55296 /\ cp <= 57343)

\* the value the payload bits of a piece of one to four bytes spell
Payload(piece) ==
    CASE Len(piece) = 1 -> piece[1]
      [] Len(piece) = 2 -> (piece[1] % 32) * 64 + (piece[2] % 64)
      [] Len(piece) = 3 ->
            (piece[1] % 16) * 4096 + (piece[2] % 64) * 64 + (piece[3] % 64)
      [] OTHER -> (piece[1] % 8) * 262144 + (piece[2] % 64) * 4096
                  + (piece[3] % 64) * 64 + (piece[4] % 64)

\* a piece is a valid unit when it is the encoding of the scalar it spells
ValidUnit(piece) == IsScalar(Payload(piece)) /\ Encode(Payload(piece)) = piece

\* the lengths of the valid unit that starts at byte i of b: one or none
UnitLens(b, i) ==
    {n \in 1..4 : i + n - 1 <= Len(b) /\ ValidUnit(SubSeq(b, i, i + n - 1))}

\* text d[j..] is bytes b[i..] with every valid unit kept as it is and every
\* invalid unit, one to three bytes in which no valid unit starts, replaced
\* by one replacement character
RECURSIVE Match(_, _, _, _)
Match(b, i, d, j) ==
    IF i > Len(b) THEN j > Len(d)
    ELSE IF j > Len(d) THEN FALSE
    ELSE IF UnitLens(b, i) # {}
    THEN \E n \in UnitLens(b, i) :
            /\ d[j] = Payload(SubSeq(b, i, i + n - 1))
            /\ Match(b, i + n, d, j + 1)
    ELSE /\ d[j] = 65533
         /\ \E n \in 1..3 :
               /\ i + n - 1 <= Len(b)
               /\ \A m \in 1..(n - 1) : UnitLens(b, i + m) = {}
               /\ Match(b, i + n, d, j + 1)

\* bytes that are not valid text: an invalid unit is met in them
RECURSIVE InvalidFrom(_, _)
InvalidFrom(b, i) ==
    /\ i <= Len(b)
    /\ \/ UnitLens(b, i) = {}
       \/ \E n \in UnitLens(b, i) : InvalidFrom(b, i + n)
Invalid(b) == InvalidFrom(b, 1)

\* C17: every read of data, valid text or not, makes one Stdout append whose
\* chunk is the bytes with each invalid unit replaced by one replacement
\* character and each valid unit kept; the call returns to the read loop; the
\* reader thread ends only on a zero-byte read or after a diagnostic of a
\* read error, never because of the bytes of a read.
C17_InvalidBytesReplaced ==
    \A g \in Gens :
        /\ \A i \in ReaderAppends(g) :
              LET k == history[i].tag[3]
              IN k # 0 =>
                    /\ k \in 1..Len(reads[g].data)
                    /\ history[i].stream = "Stdout"
                    /\ Match(reads[g].data[k], 1, history[i].chunk, 1)
                    /\ \A j \in ReaderAppends(g) : history[j].tag[3] = k => j = i
        /\ (frame[Reader(g)] # NoFrame /\ frame[Reader(g)].tag[3] # 0) =>
              (frame[Reader(g)].ret = "read" /\ frame[Reader(g)].stream = "Stdout")
        /\ Cardinality(ErrAppends(g)) <= 1
        /\ pc[Reader(g)] = "done" => (reads[g].zero \/ ErrAppends(g) # {})
        /\ pc[Reader(g)] \in {"read", "done"} =>
              \A k \in 1..Len(reads[g].data) :
                  \E i \in ReaderAppends(g) : history[i].tag[3] = k

\* C17 witness: the first read returned bytes that are not valid text, its
\* chunk with the replacement character is in the log, no diagnostic was
\* appended, and the reader thread made a second read.
C17_Witness ==
    /\ Len(reads[1].data) = 2
    /\ Invalid(reads[1].data[1])
    /\ reads[1].data[1] = <<97, 255, 98>>
    /\ TextOf(<<"reader", 1, 1>>) = <<97, 65533, 98>>
    /\ ErrAppends(1) = {}
    /\ InLog(<<"reader", 1, 2>>)
    /\ pc[Reader(1)] = "read"

\* the bytes of the reads, one after the other
RECURSIVE Flatten(_, _)
Flatten(chunks, n) == IF n = 0 THEN <<>> ELSE Flatten(chunks, n - 1) \o chunks[n]

\* the text a reader thread has appended, chunk after chunk
RECURSIVE ReaderText(_, _)
ReaderText(g, n) ==
    IF n = 0 THEN <<>> ELSE ReaderText(g, n - 1) \o TextOf(<<"reader", g, n>>)

\* C18: when every read of a reader thread is appended, the chunks it
\* appended, one after the other, are the decoding of all the bytes it read,
\* however the reads split them.
C18_SplitIndependent ==
    \A g \in Gens :
        pc[Reader(g)] \in {"read", "done"} =>
            ReaderText(g, Len(reads[g].data))
                = from_utf8_lossy(Flatten(reads[g].data, Len(reads[g].data)))

\* the runs of the log of the chunks of reader thread g
ChunkRuns(g) ==
    {k \in DOMAIN origin :
        origin[k].tag[1] = "reader" /\ origin[k].tag[2] = g /\ origin[k].tag[3] # 0}

\* C20: the chunks of a reader thread are in the log in the order of its
\* reads, each in one piece and once, and each is the decoding of the bytes
\* of its read; when the thread is back at the read or has ended, the chunk
\* of every read it made is in the log.
C20_ReadOrder ==
    \A g \in Gens :
        /\ \A i, k \in ChunkRuns(g) :
              /\ i < k => origin[i].tag[3] < origin[k].tag[3]
              /\ origin[i].tag[3] = origin[k].tag[3] => i = k
        /\ \A k \in ChunkRuns(g) :
              /\ origin[k].tag[3] \in 1..Len(reads[g].data)
              /\ IsPrefix(RunText(k), from_utf8_lossy(reads[g].data[origin[k].tag[3]]))
        /\ pc[Reader(g)] \in {"read", "done"} =>
              \A n \in 1..Len(reads[g].data) :
                  /\ TextOf(<<"reader", g, n>>) = from_utf8_lossy(reads[g].data[n])
                  /\ Cardinality({i \in ReaderAppends(g) : history[i].tag[3] = n}) = 1

\* C20 witness: two reads of different bytes; the notice of the wait thread
\* and a push_output of the owner got between the two chunks in the log.
C20_Witness ==
    /\ Len(reads[1].data) = 2
    /\ reads[1].data[1] # reads[1].data[2]
    /\ pc[Reader(1)] = "read"
    /\ Before(<<"reader", 1, 1>>, <<"wait", 1, 1>>)
    /\ Before(<<"wait", 1, 1>>, <<"push", 0, 1>>)
    /\ Before(<<"push", 0, 1>>, <<"reader", 1, 2>>)

\* the launching notice of call g
LaunchTag(g) == <<"launch", g, 1>>

\* C19: in the log the launching notice of a call is before every other text
\* of that call, and the call locked for it before its threads locked; while
\* the notice is being appended the threads of the earlier calls have ended
\* and the child of the call is not created; once the child is created, or
\* the call has failed, the whole notice is in the log.
C19_LaunchingFirst ==
    \A g \in Gens :
        /\ \A k \in DOMAIN origin :
              (GenOf(origin[k].tag) = g /\ origin[k].tag # LaunchTag(g)) =>
                  \E i \in 1..(k - 1) : origin[i].tag = LaunchTag(g)
        /\ \A n \in DOMAIN history :
              (GenOf(history[n].tag) = g /\ history[n].tag # LaunchTag(g)) =>
                  \E i \in 1..(n - 1) : history[i].tag = LaunchTag(g)
        /\ (frame[Main] # NoFrame /\ frame[Main].tag = LaunchTag(g)) =>
              /\ child[g].state = "none"
              /\ pc[Reader(g)] = "unborn" /\ pc[Waiter(g)] = "unborn"
              /\ \A h \in 1..(g - 1) : ~Running(Reader(h)) /\ ~Running(Waiter(h))
        /\ (child[g].state # "none" \/ result[g] \in {"Ok", "Err"}) =>
              TextOf(LaunchTag(g)) = LaunchingNotice
        /\ Cardinality({n \in DOMAIN history : history[n].tag = LaunchTag(g)}) <= 1

\* C19 witness: the first call failed with its notice in the log; the second
\* call went through, and its notice is before the chunk and the diagnostic
\* of its reader thread and before the notice of its wait thread.
C19_Witness ==
    /\ result[1] = "Err" /\ TextOf(LaunchTag(1)) = LaunchingNotice
    /\ Before(LaunchTag(1), LaunchTag(2))
    /\ Before(LaunchTag(2), <<"reader", 2, 1>>)
    /\ Before(LaunchTag(2), <<"reader", 2, 0>>)
    /\ Before(LaunchTag(2), <<"wait", 2, 1>>)
====
